---------------------------- MODULE Spec2Model ----------------------------
(***************************************************************************)
(* A model of libglue's archive scanner (src/libglue/archive.py):          *)
(* scan_directory driving scan_file, which dispatches to scan_zip, scan_7z *)
(* or file_crc.                                                            *)
(*                                                                         *)
(* Representation.  A Python str is a sequence of one-character strings    *)
(* (<<"z","i","p">>), a bytes object a sequence of numbers 0..255.  A      *)
(* 32-bit unsigned value (a CRC) is the record [hi, lo] of its two 16-bit  *)
(* halves, since the model checker's integers are 32-bit signed.           *)
(***************************************************************************)
EXTENDS Integers, Sequences, FiniteSets, TLC

(***************************************************************************)
(* Bounds of the exploration.                                              *)
(***************************************************************************)
\* Members of one container.
MaxMembers == 2
\* Files of one directory listing (directories of several files).
MaxFiles == 2
\* Bytes of a plain file.
MaxLen == 3
\* The value of the one entry of a populated offset table (16 for "nes" in
\* the comment of archive.py:25, scaled to the member lengths explored).
NesOffset == 1
\* Entries of the table of mounted partitions.
MaxMounts == 2

\* Gateways in the list passed to initialize_ssh_connection.
MaxGateways == 2

\* Calls the caller makes of initialize_ssh_connection, one after another.
MaxSshCalls == 2

\* Directories in the list passed to delete_cache_directories.
MaxDirs == 2

\* archive.py:143 reads 1024**2 * 16 bytes at a time; the model scales the
\* chunk to 2 bytes and explores members of up to one chunk plus one byte.
ChunkSize == 2

(***************************************************************************)
(* Sequences and strings.                                                  *)
(***************************************************************************)
\* s[n:] of Python, for n >= 0.
Drop(s, n) == IF n >= Len(s) THEN <<>> ELSE SubSeq(s, n + 1, Len(s))

\* s[:n] of Python, for n >= 0.
Take(s, n) == IF n >= Len(s) THEN s ELSE SubSeq(s, 1, n)

\* s[-3:] of Python.
LastThree(s) == IF Len(s) > 3 THEN SubSeq(s, Len(s) - 2, Len(s)) ELSE s

RECURSIVE AfterLastDot(_)
\* s.split(".")[-1] of Python: the text after the last dot, the whole of s
\* when it holds no dot.
AfterLastDot(s) ==
    IF s = <<>> THEN <<>>
    ELSE IF s[Len(s)] = "." THEN <<>>
    ELSE Append(AfterLastDot(SubSeq(s, 1, Len(s) - 1)), s[Len(s)])

\* str.lower() on the characters a hexadecimal rendering can hold.
LowerChar(c) ==
    CASE c = "A" -> "a" [] c = "B" -> "b" [] c = "C" -> "c"
      [] c = "D" -> "d" [] c = "E" -> "e" [] c = "F" -> "f"
      [] OTHER -> c

Lower(s) == [i \in 1..Len(s) |-> LowerChar(s[i])]

RECURSIVE ZFill(_, _)
\* str.zfill(width) on a string without sign.
ZFill(s, width) == IF Len(s) >= width THEN s ELSE ZFill(<<"0">> \o s, width)

DecDigit(d) == <<"0", "1", "2", "3", "4", "5", "6", "7", "8", "9">>[d + 1]

RECURSIVE DecNat(_)
DecNat(n) == IF n < 10 THEN <<DecDigit(n)>>
             ELSE Append(DecNat(n \div 10), DecDigit(n % 10))

\* str(n) of Python on an int.
Str(n) == IF n < 0 THEN <<"-">> \o DecNat(0 - n) ELSE DecNat(n)

HexDigitLower(d) ==
    <<"0", "1", "2", "3", "4", "5", "6", "7", "8", "9",
      "a", "b", "c", "d", "e", "f">>[d + 1]

HexDigitUpper(d) ==
    <<"0", "1", "2", "3", "4", "5", "6", "7", "8", "9",
      "A", "B", "C", "D", "E", "F">>[d + 1]

HexDigit(d, upper) == IF upper THEN HexDigitUpper(d) ELSE HexDigitLower(d)

RECURSIVE HexNat(_, _)
\* The hexadecimal digits of n >= 0 without leading zeros ("0" for 0).
HexNat(n, upper) ==
    IF n < 16 THEN <<HexDigit(n, upper)>>
    ELSE Append(HexNat(n \div 16, upper), HexDigit(n % 16, upper))

\* The digits of the 32-bit value c = hi * 65536 + lo, no leading zeros.
HexU32(c, upper) ==
    IF c.hi = 0 THEN HexNat(c.lo, upper)
    ELSE HexNat(c.hi, upper) \o ZFill(HexNat(c.lo, upper), 4)

\* hex(n)[2:] of Python.
HexBuiltin(c) == HexU32(c, FALSE)

\* "%X" % n of Python.
FormatX(c) == HexU32(c, TRUE)

(***************************************************************************)
(* CRC-32 as zlib and binascii compute it (reflected polynomial            *)
(* 0xEDB88320, initial value and final XOR 0xFFFFFFFF).                    *)
(***************************************************************************)
RECURSIVE Xor16(_, _)
Xor16(a, b) ==
    IF a = 0 THEN b
    ELSE IF b = 0 THEN a
    ELSE ((a + b) % 2) + 2 * Xor16(a \div 2, b \div 2)

U32(hi, lo) == [hi |-> hi, lo |-> lo]

XorU32(a, b) == U32(Xor16(a.hi, b.hi), Xor16(a.lo, b.lo))

ShiftRight1(c) == U32(c.hi \div 2, (c.lo \div 2) + (c.hi % 2) * 32768)

CrcBit(c) ==
    IF c.lo % 2 = 1 THEN XorU32(ShiftRight1(c), U32(60856, 33568))
    ELSE ShiftRight1(c)

\* The table of zlib's byte-at-a-time loop: eight bit steps of each byte.
CrcTable ==
    [i \in 0..255 |->
        CrcBit(CrcBit(CrcBit(CrcBit(CrcBit(CrcBit(CrcBit(CrcBit(U32(0, i)))))))))]

ShiftRight8(c) == U32(c.hi \div 256, (c.lo \div 256) + (c.hi % 256) * 256)

CrcByte(c, b) == XorU32(CrcTable[Xor16(c.lo % 256, b)], ShiftRight8(c))

RECURSIVE CrcRun(_, _)
CrcRun(c, data) ==
    IF data = <<>> THEN c
    ELSE CrcByte(CrcRun(c, SubSeq(data, 1, Len(data) - 1)), data[Len(data)])

\* zlib.crc32(data, value): the CRC of data, continued from value.
crc32(data, value) ==
    XorU32(CrcRun(XorU32(value, U32(65535, 65535)), data), U32(65535, 65535))


(***************************************************************************)
(* Python values.  A dict is a function on its keys; d | e is Merge(d, e). *)
(* The "size" of an entry is a str on the archive paths and an int on the  *)
(* plain-file path, so a size is tagged with its Python type.              *)
(***************************************************************************)
Merge(d, e) == e @@ d

PyStr(s) == [str |-> s]

PyInt(n) == [int |-> n]

\* hashlib.md5().update(...).hexdigest() is not computed: the digest stands
\* for the bytes it was fed, concatenated.
HexDigest(fed) == [md5_of |-> fed]

(***************************************************************************)
(* The inputs: files on disk.                                              *)
(*   name     the file name in the directory listing                       *)
(*   format   what the bytes are: "zip", "7z" or "data" (anything else,    *)
(*            also a damaged or empty archive that no reader can open)     *)
(*   content  the bytes (os.path.getsize is their number); a stub for a    *)
(*            valid container, whose bytes the scanner never looks at      *)
(*   members  the members the container's directory lists                  *)
(* A zip member is its name, its data, and the state of its stored stream: *)
(* "ok", "badcrc" (the data does not match the stored CRC; zipfile raises  *)
(* BadZipFile when a read reaches the end of the member) or "damaged" (the *)
(* compressed stream does not decode; zipfile lets zlib.error through).    *)
(***************************************************************************)
TxtName == <<"a", ".", "t", "x", "t">>
NesName == <<"r", ".", "n", "e", "s">>
OnesName == <<"o", "n", "e", "s">>
MemberNames == {TxtName, NesName, OnesName}

ZipName == <<"a", ".", "z", "i", "p">>
OtherZipName == <<"d", ".", "z", "i", "p">>
SevenName == <<"b", ".", "7", "z">>
PlainName == <<"c", ".", "b", "i", "n">>

\* File names that hold no dot.
BareZipName == <<"z", "i", "p">>
BareSevenName == <<"7", "z">>

\* The directory scan_directory is given; os.path.join puts it before each name.
Directory == <<"d", "i", "r">>

Payload == <<2, 1, 3, 4, 5, 6, 7, 8>>

\* Member data of every length up to one chunk plus one byte.
MemberData == {Take(Payload, n) : n \in 0..(ChunkSize + 1)}

ZipMembers ==
    [filename : MemberNames, data : MemberData, stream : {"ok"}]
    \cup [filename : MemberNames, data : {Take(Payload, ChunkSize + 1)},
          stream : {"badcrc", "damaged"}]

\* What py7zr's list() reports of a member.
SevenMembers ==
    {[filename |-> n, crc32 |-> crc32(d, U32(0, 0)), uncompressed |-> Len(d)] :
        n \in {TxtName, NesName}, d \in MemberData}

SeqsUpTo(S, n) == UNION {[1..k -> S] : k \in 0..n}

Bytes == {10, 65}

StubContent == <<80, 75>>

ZipFiles ==
    {[name |-> ZipName, format |-> "zip", content |-> StubContent, members |-> ms] :
        ms \in SeqsUpTo(ZipMembers, MaxMembers)}

SevenFiles ==
    {[name |-> SevenName, format |-> "7z", content |-> StubContent, members |-> ms] :
        ms \in SeqsUpTo(SevenMembers, MaxMembers)}

\* Files no reader opens as a container: empty or arbitrary bytes under
\* each of the three names.
DataFiles ==
    {[name |-> n, format |-> "data", content |-> c, members |-> <<>>] :
        n \in {ZipName, SevenName}, c \in {<<>>, <<65>>}}
    \cup {[name |-> PlainName, format |-> "data", content |-> c, members |-> <<>>] :
            c \in SeqsUpTo(Bytes, MaxLen)}

Files == ZipFiles \cup SevenFiles \cup DataFiles

\* The files of the directories of several files.
LongData == Take(Payload, ChunkSize + 1)

BatchFiles ==
    { [name |-> ZipName, format |-> "data", content |-> <<>>, members |-> <<>>],
      [name |-> ZipName, format |-> "data", content |-> <<65>>, members |-> <<>>],
      [name |-> ZipName, format |-> "zip", content |-> StubContent,
       members |-> <<[filename |-> TxtName, data |-> LongData, stream |-> "ok"],
                     [filename |-> TxtName, data |-> LongData, stream |-> "damaged"]>>],
      [name |-> ZipName, format |-> "zip", content |-> StubContent,
       members |-> <<[filename |-> NesName, data |-> LongData, stream |-> "ok"]>>],
      [name |-> OtherZipName, format |-> "zip", content |-> StubContent,
       members |-> <<[filename |-> TxtName, data |-> Take(Payload, 2), stream |-> "ok"]>>],
      [name |-> SevenName, format |-> "data", content |-> <<65>>, members |-> <<>>],
      [name |-> SevenName, format |-> "7z", content |-> StubContent,
       members |-> <<[filename |-> TxtName, crc32 |-> U32(57005, 48879),
                      uncompressed |-> 3]>>],
      [name |-> PlainName, format |-> "data", content |-> <<65, 10>>, members |-> <<>>],
      [name |-> BareZipName, format |-> "zip", content |-> StubContent,
       members |-> <<[filename |-> OnesName, data |-> Take(Payload, 1), stream |-> "ok"]>>] }

\* The files scan_file is called on directly, the path being the bare file
\* name (a path relative to the working directory).
DirectFiles ==
    { [name |-> BareZipName, format |-> "zip", content |-> StubContent,
       members |-> <<[filename |-> OnesName, data |-> Take(Payload, 1), stream |-> "ok"]>>],
      [name |-> BareZipName, format |-> "data", content |-> <<>>, members |-> <<>>],
      [name |-> BareZipName, format |-> "data", content |-> <<65>>, members |-> <<>>],
      [name |-> BareSevenName, format |-> "data", content |-> <<65>>, members |-> <<>>],
      [name |-> BareSevenName, format |-> "7z", content |-> StubContent,
       members |-> <<[filename |-> TxtName, crc32 |-> U32(57005, 48879),
                      uncompressed |-> 3]>>],
      [name |-> OnesName, format |-> "data", content |-> <<65>>, members |-> <<>>],
      [name |-> ZipName, format |-> "zip", content |-> StubContent,
       members |-> <<[filename |-> TxtName, data |-> LongData, stream |-> "ok"],
                     [filename |-> TxtName, data |-> LongData, stream |-> "badcrc"]>>],
      [name |-> PlainName, format |-> "data", content |-> <<>>, members |-> <<>>] }

\* Listings of k files with pairwise distinct names.
Listings(S, k) ==
    {l \in [1..k -> S] : \A i, j \in 1..k : i # j => l[i].name # l[j].name}

\* The offset table: empty as archive.py:25 ships it, or populated by the
\* embedding program as the comment on that line shows.
OffsetTables == {[x \in {} |-> 0], [x \in {<<"n", "e", "s">>} |-> NesOffset]}

(***************************************************************************)
(* The state.                                                              *)
(***************************************************************************)
VARIABLES
    called,     \* the function called, e.g. "scan_directory", or "scan_file" on one path
    dir,        \* os.listdir(directory): the files, in listing order (for
                \* scan_file, the one file of the path)
    md5,        \* the md5 argument
    clean,      \* the clean argument
    offsets,    \* the module's offsets table
    fs,         \* the names of the files that exist in the directory
    pc,         \* where the scan is: "next_file", "zip", "7z", "returned", "raised"
    index,      \* scan_directory's position in the listing, from 1
    member,     \* the position in the open container's member list, from 1
    result,     \* scan_directory's result list
    printed,    \* what was printed, in order
    hashed,     \* the digests computed: file, member and the bytes fed
    reads,      \* the reads of member data: <<file, member>>
    exc         \* the exception that left the function called, or "none"

\* get_zip_checksums
VARIABLES
    archive,    \* the file at path
    attached,   \* progress is a Progress (TRUE) or None (FALSE)
    task,       \* the task task_id of the Progress
    events,     \* the calls made on the Progress and the reads of members, in order
    checksums   \* the dict checksums

checksumVars == <<archive, attached, task, events, checksums>>

\* verify_mount, mount and shell
VARIABLES
    device,     \* the device argument
    mountPoint, \* the mount_point argument
    mounts,     \* psutil.disk_partitions(): what is mounted where, in order
    process,    \* what the command shell runs does: exit code, stdout, stderr
    returned,   \* the value the function called returned: none yet, or one
    exitStatus  \* the status of SystemExit: none yet, or one

mountVars == <<device, mountPoint, mounts, process>>

\* delete_file_from_zip, create and rename
VARIABLES
    paths,      \* the directory entries: the file (its number in inodes) each
                \* path names, 0 for none
    inodes,     \* the files: what each holds, a sequence of chunks
    calls       \* the calls in progress, each with its arguments, its
                \* position and its open files

editVars == <<paths, inodes, calls>>

\* initialize_ssh_connection
VARIABLES
    gateway,    \* the caller's gateway object: None, a str or a list
    own,        \* the list [gateway] the call makes of a str
    frames,     \* the calls on the stack, the caller's first: host, position
    chains,     \* per call of the caller, the connections opened, in order
    passed      \* per call of the caller, the gateway object as it was passed

sshVars == <<gateway, own, frames, chains, passed>>

\* delete_cache_directories and delete_directory
VARIABLES
    directories, \* the directories argument
    force,       \* the force argument
    answer,      \* what the user answers to Confirm.ask
    tree,        \* the file system: per path a directory, a file or nothing
    before,      \* the file system before the call
    stage,       \* where the call is: "ask", "delete", "done"
    position,    \* the position in directories, from 1
    shown        \* what was printed and logged, in order

cacheVars == <<directories, force, answer, tree, before, stage, position, shown>>

toolVars == <<sshVars, cacheVars>>

\* The variables of the scan functions alone.
scanVars == <<dir, md5, clean, offsets, fs, member, result, hashed, reads>>

\* What the scan functions leave alone: the variables of the other functions.
others == <<checksumVars, mountVars, returned, exitStatus, editVars, toolVars>>

\* What get_zip_checksums leaves alone.
foreignToChecksums == <<scanVars, printed, mountVars, returned, exitStatus, editVars,
                        toolVars>>

\* What verify_mount, mount and shell leave alone.
foreignToMount == <<scanVars, index, checksumVars, editVars, toolVars>>

\* What delete_file_from_zip, create and rename leave alone.
foreignToEdit == <<called, scanVars, pc, index, printed, exc, checksumVars,
                   mountVars, returned, exitStatus, toolVars>>

\* What initialize_ssh_connection and delete_cache_directories leave alone,
\* each the other's variables too.
foreignToTools == <<called, scanVars, pc, index, printed, exc, checksumVars,
                    mountVars, returned, exitStatus, editVars>>

vars == <<called, dir, md5, clean, offsets, fs, pc, index, member, result,
          printed, hashed, reads, exc, others>>

inputs == <<called, dir, md5, clean, offsets>>

(***************************************************************************)
(* The zip reader's collaborators (zipfile).                               *)
(***************************************************************************)
\* The ZipInfo of a member, from the container's central directory: the
\* stored CRC is the CRC-32 of the data, or 0xDEADBEEF where the data does
\* not match it.
ZipInfo(m) ==
    [filename |-> m.filename,
     CRC |-> IF m.stream = "badcrc" THEN U32(57005, 48879)
             ELSE crc32(m.data, U32(0, 0)),
     file_size |-> Len(m.data)]

\* The exception a read of the member's data to its end raises, or "none".
StreamError(m) ==
    CASE m.stream = "ok" -> "none"
      [] m.stream = "badcrc" -> "BadZipFile"
      [] m.stream = "damaged" -> "zlib.error"

(***************************************************************************)
(* scan_zip, one member (archive.py:126-147).                              *)
(***************************************************************************)
\* A variant of StoredCrcText that forgets zfill(8).
StoredCrcTextNoFill(info) == Lower(HexBuiltin(info.CRC))

\* Line 134: hex(info.CRC)[2:].zfill(8).lower().
StoredCrcText(info) == Lower(ZFill(HexBuiltin(info.CRC), 8))

RECURSIVE HashLoop(_, _, _)
\* Lines 143-144: while chunk := data.read(ChunkSize)[offset:]: update(chunk).
\* rest is what the member's stream still holds, fed what the digest got.
HashLoop(rest, offset, fed) ==
    LET chunk == Drop(Take(rest, ChunkSize), offset)
    IN  IF chunk = <<>> THEN fed
        ELSE HashLoop(Drop(rest, ChunkSize), offset, fed \o chunk)

\* The bytes the digest of a member is fed.
HashInput(data, offset) == HashLoop(data, offset, <<>>)

\* Lines 136-138: the dict of a member.
ZipResult(path, info, crc, offset) ==
    [path |-> path, file_name |-> info.filename, crc |-> crc,
     size |-> PyStr(Str(info.file_size - offset)), matches |-> <<>>]

\* A variant of YieldedDict where the digest takes the place of the crc: the
\* dict yielded with the digest has an md5 key and no crc key.
YieldedDictReplacesCrc(res, withMd5, fed) ==
    IF withMd5
    THEN Merge([key \in DOMAIN res \ {"crc"} |-> res[key]],
               [md5 |-> HexDigest(fed)])
    ELSE res

\* Lines 140-147: the dict the loop body yields, result | {"md5": ...} when
\* the digest was asked for, fed to it the bytes fed.
YieldedDict(res, withMd5, fed) ==
    IF withMd5 THEN Merge(res, [md5 |-> HexDigest(fed)]) ELSE res

\* A variant of ZipMemberOutcome that reads the data of every member, also
\* when no digest is asked for.
ZipMemberOutcomeReadsAlways(path, m, table, withMd5) ==
    LET info == ZipInfo(m)
        extension == LastThree(info.filename)
        readError == StreamError(m)
    IN  IF extension \in DOMAIN table
        THEN [exc |-> IF readError # "none" THEN readError ELSE "AttributeError",
              read |-> TRUE, yields |-> <<>>, fed |-> <<>>]
        ELSE LET offset == 0
                 crc == StoredCrcText(info)
                 res == ZipResult(path, info, crc, offset)
                 fed == HashInput(m.data, offset)
             IN  IF withMd5 /\ readError # "none"
                 THEN [exc |-> readError, read |-> TRUE, yields |-> <<>>, fed |-> <<>>]
                 ELSE [exc |-> "none", read |-> TRUE,
                       yields |-> <<YieldedDict(res, withMd5, fed)>>,
                       fed |-> IF withMd5 THEN <<fed>> ELSE <<>>]

\* One pass of the loop body for member m: the exception it raises ("none"
\* when it reaches its yield), whether it read the member's data, the dict
\* it yields and the bytes its digest was fed (each a sequence of 0 or 1).
\* Line 131 reads the member, takes binascii.crc32 of it, an int, and calls
\* .lower() on that int: an AttributeError whenever the read succeeds.
ZipMemberOutcome(path, m, table, withMd5) ==
    LET info == ZipInfo(m)
        extension == LastThree(info.filename)
        readError == StreamError(m)
    IN  IF extension \in DOMAIN table
        THEN [exc |-> IF readError # "none" THEN readError ELSE "AttributeError",
              read |-> TRUE, yields |-> <<>>, fed |-> <<>>]
        ELSE LET offset == 0
                 crc == StoredCrcText(info)
                 res == ZipResult(path, info, crc, offset)
                 fed == HashInput(m.data, offset)
             IN  IF withMd5 /\ readError # "none"
                 THEN [exc |-> readError, read |-> TRUE, yields |-> <<>>, fed |-> <<>>]
                 ELSE [exc |-> "none", read |-> withMd5,
                       yields |-> <<YieldedDict(res, withMd5, fed)>>,
                       fed |-> IF withMd5 THEN <<fed>> ELSE <<>>]

RECURSIVE ScanZipYields(_, _, _, _)
\* scan_zip on an open container as a whole: the dicts it yields, up to the
\* end of the member list or to the first member that raises.
ScanZipYields(path, members, table, withMd5) ==
    IF members = <<>> THEN <<>>
    ELSE LET o == ZipMemberOutcome(path, members[1], table, withMd5)
         IN  IF o.exc # "none" THEN <<>>
             ELSE o.yields \o ScanZipYields(path, Tail(members), table, withMd5)

(***************************************************************************)
(* scan_7z, one member (archive.py:165-175).                               *)
(***************************************************************************)
SevenResult(path, entry) ==
    [path |-> path, file_name |-> entry.filename,
     crc |-> Lower(ZFill(HexBuiltin(entry.crc32), 8)),
     size |-> PyStr(Str(entry.uncompressed)), matches |-> <<>>]

\* A variant of SevenPrints that stays silent about the digest.
SevenPrintsNothing(withMd5) == <<>>

\* What one pass of the loop body prints before its yield.
SevenPrints(withMd5) ==
    IF withMd5 THEN <<[msg |-> "implement md5 calculation for 7zip"]>> ELSE <<>>

(***************************************************************************)
(* file_crc (archive.py:180-188).                                          *)
(***************************************************************************)
RECURSIVE LineLen(_)
\* The length of the first line of the bytes: up to and with the first
\* newline, or all of them.
LineLen(bytes) ==
    IF bytes = <<>> THEN 0
    ELSE IF bytes[1] = 10 THEN 1
    ELSE 1 + LineLen(Tail(bytes))

RECURSIVE FileCrcLoopRestarts(_, _)
\* A variant of FileCrcLoop that does not hand prev to zlib.crc32.
FileCrcLoopRestarts(rest, prev) ==
    IF rest = <<>> THEN prev
    ELSE FileCrcLoopRestarts(Drop(rest, LineLen(rest)),
                             crc32(Take(rest, LineLen(rest)), U32(0, 0)))

RECURSIVE FileCrcLoop(_, _)
\* for eachLine in open(file_name, "rb"): prev = zlib.crc32(eachLine, prev)
FileCrcLoop(rest, prev) ==
    IF rest = <<>> THEN prev
    ELSE FileCrcLoop(Drop(rest, LineLen(rest)),
                     crc32(Take(rest, LineLen(rest)), prev))

\* prev & 0xFFFFFFFF changes nothing: zlib.crc32 returns an unsigned value.
file_crc(content) == Lower(FormatX(FileCrcLoop(content, U32(0, 0))))

(***************************************************************************)
(* scan_file and scan_directory.                                           *)
(***************************************************************************)
\* The path scan_file gets: os.path.join(directory, file_name), line 212,
\* or the path of a direct call.
PathOf(f) ==
    IF called = "scan_directory" THEN Directory \o <<"/">> \o f.name ELSE f.name

Current == dir[index]

\* path.split(".")[-1], line 193.
Extension == AfterLastDot(PathOf(Current))

AtFile == pc = "next_file" /\ index <= Len(dir)

\* Line 213: the progress line scan_directory prints for every dict.
Progress == [msg |-> "scanning archive", n |-> index, of |-> Len(dir)]

\* What the taker of a yielded dict prints: scan_directory its progress
\* line, the caller of scan_file nothing.
ProgressPrints == IF called = "scan_directory" THEN <<Progress>> ELSE <<>>

\* A variant of Collect that puts the dict in front.
CollectInFront(res, file) == <<file>> \o res

\* Line 214: result.append(file).
Collect(res, file) == Append(res, file)

\* A variant of BadZipFileHandler that removes the file whatever clean is.
BadZipFileHandlerAlwaysRemoves(f) ==
    /\ printed' = Append(printed, [msg |-> "deleting corrupt archive",
                                    path |-> PathOf(f)])
    /\ fs' = fs \ {f.name}

\* Lines 148-158: the handler of zipfile.BadZipFile.
BadZipFileHandler(f) ==
    IF Len(f.content) = 0
    THEN /\ printed' = Append(printed, [msg |-> "archive is 0 bytes (will delete)",
                                         path |-> PathOf(f)])
         /\ fs' = fs \ {f.name}
    ELSE IF clean
    THEN /\ printed' = Append(printed, [msg |-> "deleting corrupt archive",
                                         path |-> PathOf(f)])
         /\ fs' = fs \ {f.name}
    ELSE /\ printed' = Append(printed, [msg |-> "ERROR - archive", path |-> PathOf(f)])
         /\ fs' = fs

\* A variant of Bad7zFileHandler that removes the file it could not open.
Bad7zFileHandlerRemoves(f) ==
    /\ printed' = Append(printed, [msg |-> "error:", path |-> PathOf(f),
                                   clean |-> clean])
    /\ fs' = fs \ {f.name}

\* Lines 176-177: the handler of OSError and py7zr.Bad7zFile.
Bad7zFileHandler(f) ==
    /\ printed' = Append(printed, [msg |-> "error:", path |-> PathOf(f),
                                   clean |-> clean])
    /\ fs' = fs

\* Line 125: zipfile.ZipFile opens the file.
ZipOpen ==
    /\ AtFile
    /\ Extension = <<"z", "i", "p">>
    /\ Current.format = "zip"
    /\ pc' = "zip"
    /\ member' = 1
    /\ UNCHANGED <<inputs, others, fs, index, result, printed, hashed, reads, exc>>

\* Line 125 raises BadZipFile: the file is no zip container.
ZipOpenFails ==
    /\ AtFile
    /\ Extension = <<"z", "i", "p">>
    /\ Current.format # "zip"
    /\ BadZipFileHandler(Current)
    /\ index' = index + 1
    /\ UNCHANGED <<inputs, others, pc, member, result, hashed, reads, exc>>

\* One pass of scan_zip's loop, and of the loops of scan_file and
\* scan_directory that take what it yields.
ZipMember ==
    /\ pc = "zip"
    /\ member <= Len(Current.members)
    /\ LET o == ZipMemberOutcome(PathOf(Current), Current.members[member],
                                 offsets, md5)
       IN  /\ reads' = IF o.read THEN Append(reads, <<index, member>>) ELSE reads
           /\ IF o.exc = "none"
              THEN /\ result' = Collect(result, Merge(o.yields[1], [type |-> Extension]))
                   /\ printed' = printed \o ProgressPrints
                   /\ hashed' = IF o.fed = <<>> THEN hashed
                                ELSE Append(hashed, [file |-> index, member |-> member,
                                                     bytes |-> o.fed[1]])
                   /\ member' = member + 1
                   /\ UNCHANGED <<fs, pc, index, exc>>
              ELSE IF o.exc = "BadZipFile"
              THEN /\ BadZipFileHandler(Current)
                   /\ pc' = "next_file"
                   /\ index' = index + 1
                   /\ UNCHANGED <<member, result, hashed, exc>>
              ELSE /\ pc' = "raised"
                   /\ exc' = o.exc
                   /\ UNCHANGED <<fs, index, member, result, printed, hashed>>
    /\ UNCHANGED <<inputs, others>>

\* The member list is exhausted: scan_zip returns.
ZipEnd ==
    /\ pc = "zip"
    /\ member > Len(Current.members)
    /\ pc' = "next_file"
    /\ index' = index + 1
    /\ UNCHANGED <<inputs, others, fs, member, result, printed, hashed, reads, exc>>

\* Line 164: py7zr.SevenZipFile opens the file.
SevenOpen ==
    /\ AtFile
    /\ Extension = <<"7", "z">>
    /\ Current.format = "7z"
    /\ pc' = "7z"
    /\ member' = 1
    /\ UNCHANGED <<inputs, others, fs, index, result, printed, hashed, reads, exc>>

\* Line 164 raises Bad7zFile: the file is no 7z container.
SevenOpenFails ==
    /\ AtFile
    /\ Extension = <<"7", "z">>
    /\ Current.format # "7z"
    /\ Bad7zFileHandler(Current)
    /\ index' = index + 1
    /\ UNCHANGED <<inputs, others, pc, member, result, hashed, reads, exc>>

\* One pass of scan_7z's loop, and of the loops that take what it yields.
SevenMember ==
    /\ pc = "7z"
    /\ member <= Len(Current.members)
    /\ result' = Collect(result, Merge(SevenResult(PathOf(Current), Current.members[member]),
                                        [type |-> Extension]))
    /\ printed' = printed \o SevenPrints(md5) \o ProgressPrints
    /\ member' = member + 1
    /\ UNCHANGED <<inputs, others, fs, pc, index, hashed, reads, exc>>

SevenEnd ==
    /\ pc = "7z"
    /\ member > Len(Current.members)
    /\ pc' = "next_file"
    /\ index' = index + 1
    /\ UNCHANGED <<inputs, others, fs, member, result, printed, hashed, reads, exc>>

\* Line 202: any other extension.
PlainFile ==
    /\ AtFile
    /\ Extension # <<"7", "z">>
    /\ Extension # <<"z", "i", "p">>
    /\ result' = Collect(result, [type |-> <<"f", "i", "l", "e">>, path |-> PathOf(Current),
                                  crc |-> file_crc(Current.content),
                                  size |-> PyInt(Len(Current.content))])
    /\ printed' = printed \o ProgressPrints
    /\ index' = index + 1
    /\ UNCHANGED <<inputs, others, fs, pc, member, hashed, reads, exc>>

\* Line 216: scan_directory returns its list (scan_file's generator is
\* exhausted, for a direct call).
Return ==
    /\ pc = "next_file"
    /\ index > Len(dir)
    /\ pc' = "returned"
    /\ UNCHANGED <<inputs, others, fs, index, member, result, printed, hashed, reads, exc>>

(***************************************************************************)
(* get_zip_checksums (archive.py:58-77).                                   *)
(***************************************************************************)
\* hashlib.sha1(content).hexdigest(): the digest of the content, kept as the
\* content it is the digest of.
Sha1(content) == [sha1_of |-> content]

\* ZipFile.namelist(): the names of the members, in order, duplicates kept.
NameList(members) == [i \in 1..Len(members) |-> members[i].filename]

\* ZipFile.open(name) looks the name up with getinfo: of several members of
\* one name it finds the last.
GetInfo(members, name) ==
    members[CHOOSE i \in 1..Len(members) :
                /\ members[i].filename = name
                /\ \A j \in (i + 1)..Len(members) : members[j].filename # name]

\* Path.stem: the name without its last suffix.
Stem(name) ==
    LET dots == {i \in 1..Len(name) : name[i] = "."}
        last == CHOOSE i \in dots : \A j \in dots : j <= i
    IN  IF dots = {} THEN name
        ELSE IF last = 1 \/ last = Len(name) THEN name
        ELSE SubSeq(name, 1, last - 1)

\* The task as its creator left it: not started, no total, nothing completed.
NewTask ==
    [started |-> FALSE, visible |-> FALSE, description |-> <<>>,
     total |-> <<>>, completed |-> 0]

\* Line 65: progress.start_task(task_id).
StartTask(t) == [t EXCEPT !.started = TRUE]

\* Line 66: progress.update(task_id, visible=True, description=..., total=n).
UpdateTotal(t, description, n) ==
    [t EXCEPT !.visible = TRUE, !.description = description, !.total = <<n>>]

\* Line 69: progress.update(task_id, description=...).
UpdateDescription(t, description) == [t EXCEPT !.description = description]

\* A variant of UpdateAdvance that never moves the completed count.
UpdateAdvanceStuck(t, n) == t

\* Line 75: progress.update(task_id, advance=n).
UpdateAdvance(t, n) == [t EXCEPT !.completed = @ + n]

\* The members of the archives get_zip_checksums is called on.
ChecksumMembers ==
    [filename : {TxtName, NesName}, data : {<<>>, LongData}, stream : {"ok"}]
    \cup {[filename |-> TxtName, data |-> LongData, stream |-> "badcrc"],
          [filename |-> NesName, data |-> LongData, stream |-> "damaged"]}

ChecksumArchives ==
    {[name |-> ZipName, format |-> "zip", content |-> StubContent, members |-> ms] :
        ms \in SeqsUpTo(ChecksumMembers, MaxMembers)}
    \cup {[name |-> ZipName, format |-> "data", content |-> <<65>>, members |-> <<>>]}

\* The description of line 69.
MemberDescription(name) == [stem |-> Stem(archive.name), member |-> name]

\* Lines 62-66: the archive opens, the task is started and given its total.
\* With progress None line 65 raises AttributeError.
ChecksumsOpen ==
    /\ called = "get_zip_checksums"
    /\ pc = "start"
    /\ archive.format = "zip"
    /\ IF attached
       THEN /\ task' = UpdateTotal(StartTask(task), [file |-> archive.name],
                                   Len(NameList(archive.members)))
            /\ events' = events \o <<[call |-> "start_task"],
                                     [call |-> "update_total",
                                      total |-> Len(NameList(archive.members))]>>
            /\ pc' = "members"
            /\ UNCHANGED exc
       ELSE /\ pc' = "raised"
            /\ exc' = "AttributeError"
            /\ UNCHANGED <<task, events>>
    /\ UNCHANGED <<called, foreignToChecksums, index, archive, attached, checksums>>

\* Line 62 raises BadZipFile: the file is no zip container.
ChecksumsOpenFails ==
    /\ called = "get_zip_checksums"
    /\ pc = "start"
    /\ archive.format # "zip"
    /\ pc' = "raised"
    /\ exc' = "BadZipFile"
    /\ UNCHANGED <<called, foreignToChecksums, index, checksumVars>>

\* Lines 68-75, one pass: the description, the read of the member, its
\* digest, the advance. A read that fails leaves the function.
ChecksumsMember ==
    /\ pc = "members"
    /\ index <= Len(archive.members)
    /\ LET name == NameList(archive.members)[index]
           m == GetInfo(archive.members, name)
           described == [call |-> "update_description", member |-> name]
           read == [call |-> "read", member |-> name]
       IN  IF StreamError(m) = "none"
           THEN /\ task' = UpdateAdvance(UpdateDescription(task, MemberDescription(name)), 1)
                /\ events' = events \o <<described, read, [call |-> "update_advance"]>>
                /\ checksums' = Merge(checksums, [x \in {name} |-> Sha1(m.data)])
                /\ index' = index + 1
                /\ UNCHANGED <<pc, exc>>
           ELSE /\ task' = UpdateDescription(task, MemberDescription(name))
                /\ events' = events \o <<described, read>>
                /\ pc' = "raised"
                /\ exc' = StreamError(m)
                /\ UNCHANGED <<checksums, index>>
    /\ UNCHANGED <<called, foreignToChecksums, archive, attached>>

\* Line 77: return checksums.
ChecksumsReturn ==
    /\ pc = "members"
    /\ index > Len(archive.members)
    /\ pc' = "returned"
    /\ UNCHANGED <<called, foreignToChecksums, index, exc, checksumVars>>

RECURSIVE ChecksumsLoop(_, _, _)
\* The loop of lines 68-75 from the names still to do and the dict so far:
\* the exception that leaves it ("none" at its end) and the dict.
ChecksumsLoop(members, names, dict) ==
    IF names = <<>> THEN [exc |-> "none", checksums |-> dict]
    ELSE LET m == GetInfo(members, names[1])
         IN  IF StreamError(m) # "none"
             THEN [exc |-> StreamError(m), checksums |-> dict]
             ELSE ChecksumsLoop(members, Tail(names),
                                Merge(dict, [x \in {names[1]} |-> Sha1(m.data)]))

\* get_zip_checksums on the file a with a Progress: how it ends and what it
\* has in checksums.
GetZipChecksums(a) ==
    IF a.format # "zip" THEN [exc |-> "BadZipFile", checksums |-> [x \in {} |-> 0]]
    ELSE ChecksumsLoop(a.members, NameList(a.members), [x \in {} |-> 0])

ChecksumsStart ==
    /\ archive \in ChecksumArchives
    /\ attached \in BOOLEAN
    /\ task = NewTask
    /\ events = <<>>
    /\ checksums = [x \in {} |-> 0]

\* A call of another function.
ChecksumsIdle ==
    /\ archive = [name |-> <<>>, format |-> "data", content |-> <<>>, members |-> <<>>]
    /\ attached = FALSE
    /\ task = NewTask
    /\ events = <<>>
    /\ checksums = [x \in {} |-> 0]

(***************************************************************************)
(* shell (shell.py:133-149), verify_mount and mount                        *)
(* (file_system.py:370-398).                                               *)
(***************************************************************************)
\* Python values a function returns.
PyBool(b) == [bool |-> b]
PyNone == [none |-> TRUE]
PyBytes(s) == [bytes |-> s]

\* The bytes bytes.strip() takes for whitespace.
Whitespace == {9, 10, 11, 12, 13, 32}

RECURSIVE StripLeft(_)
StripLeft(s) ==
    IF s # <<>> /\ s[1] \in Whitespace THEN StripLeft(Tail(s)) ELSE s

RECURSIVE StripRight(_)
StripRight(s) ==
    IF s # <<>> /\ s[Len(s)] \in Whitespace
    THEN StripRight(SubSeq(s, 1, Len(s) - 1)) ELSE s

\* bytes.strip()
Strip(s) == StripRight(StripLeft(s))

\* shell, lines 140-149, on the exit code and the output of the command:
\* what it logs, and how it ends: SystemExit(1), or the value it returns
\* (None where it falls off its end).
ShellOutcome(p) ==
    IF p.code # 0
    THEN [logged |-> (IF p.stdout # <<>>
                      THEN <<[msg |-> "info", text |-> Strip(p.stdout)]>> ELSE <<>>)
                     \o (IF p.stderr # <<>>
                         THEN <<[msg |-> "error", text |-> Strip(p.stderr)]>> ELSE <<>>),
          exits |-> p.stderr # <<>>,
          value |-> PyNone]
    ELSE [logged |-> <<>>,
          exits |-> FALSE,
          value |-> IF p.stdout # <<>> THEN PyBytes(Strip(p.stdout))
                    ELSE PyBytes(p.stdout)]

\* Path.is_mount(): something is mounted on the mount point.
IsMount(mp, table) == \E i \in 1..Len(table) : table[i].mountpoint = mp

\* get_device_mount_points, line 367.
GetDeviceMountPoints(mp, table) == SelectSeq(table, LAMBDA p : p.mountpoint = mp)

\* bool(mount_point): a Path defines neither __bool__ nor __len__, so it is
\* true whatever the path.
PathIsTrue(mp) == TRUE

\* verify_mount, lines 372-390: "False", "True" or "exit" (SystemExit(1)).
VerifyMountOutcome(dev, mp, table) ==
    IF ~IsMount(mp, table) THEN "False"
    ELSE IF Len(GetDeviceMountPoints(mp, table)) > 1 THEN "exit"
    ELSE IF ~PathIsTrue(mp) THEN "exit"
    ELSE "True"

Devices == {<<"s", "d", "a">>, <<"s", "d", "b">>}
MountPoints == {<<"/", "m", "n", "t">>, <<"/", "s", "r", "v">>}
Partitions == [device : Devices, mountpoint : MountPoints]

\* What a command can do: its exit code, its standard output and its
\* standard error.
Processes ==
    [code : {0, 1}, stdout : {<<>>, <<32, 104, 10>>, <<10>>}, stderr : {<<>>, <<101, 10>>}]

NoProcess == [code |-> 0, stdout |-> <<>>, stderr |-> <<>>]

\* verify_mount called by itself.
VerifyMount ==
    /\ called = "verify_mount"
    /\ pc = "start"
    /\ LET o == VerifyMountOutcome(device, mountPoint, mounts)
       IN  IF o = "exit"
           THEN /\ pc' = "exited"
                /\ exitStatus' = <<1>>
                /\ printed' = Append(printed, [msg |-> "critical"])
                /\ UNCHANGED returned
           ELSE /\ pc' = "returned"
                /\ returned' = <<PyBool(o = "True")>>
                /\ printed' = IF o = "True"
                              THEN Append(printed, [msg |-> "info",
                                                    text |-> "already mounted"])
                              ELSE printed
                /\ UNCHANGED exitStatus
    /\ UNCHANGED <<called, foreignToMount, exc, mountVars>>

\* mount, lines 395-396: verify_mount says the device is mounted, or exits.
MountVerified ==
    /\ called = "mount"
    /\ pc = "start"
    /\ LET o == VerifyMountOutcome(device, mountPoint, mounts)
       IN  /\ o # "False"
           /\ IF o = "exit"
              THEN /\ pc' = "exited"
                   /\ exitStatus' = <<1>>
                   /\ printed' = Append(printed, [msg |-> "critical"])
                   /\ UNCHANGED returned
              ELSE /\ pc' = "returned"
                   /\ returned' = <<PyNone>>
                   /\ printed' = Append(printed, [msg |-> "info",
                                                  text |-> "already mounted"])
                   /\ UNCHANGED exitStatus
    /\ UNCHANGED <<called, foreignToMount, exc, mountVars>>

\* mount, lines 395-398: verify_mount returns False and mount goes on to
\* shell("sudo", "mount", ...).
MountUnverified ==
    /\ called = "mount"
    /\ pc = "start"
    /\ VerifyMountOutcome(device, mountPoint, mounts) = "False"
    /\ pc' = "shell"
    /\ UNCHANGED <<called, foreignToMount, exc, mountVars, printed, returned, exitStatus>>

\* shell, called by itself or by mount: the command runs (a mount command
\* that exits with 0 has mounted the device) and shell ends; mount drops
\* what shell returns and returns None.
Shell ==
    /\ \/ called = "shell" /\ pc = "start"
       \/ called = "mount" /\ pc = "shell"
    /\ LET o == ShellOutcome(process)
       IN  /\ printed' = printed \o <<[msg |-> "info", text |-> "running"]>> \o o.logged
           /\ IF o.exits
              THEN /\ pc' = "exited"
                   /\ exitStatus' = <<1>>
                   /\ UNCHANGED returned
              ELSE /\ pc' = "returned"
                   /\ returned' = IF called = "mount" THEN <<PyNone>> ELSE <<o.value>>
                   /\ UNCHANGED exitStatus
    /\ mounts' = IF called = "mount" /\ process.code = 0
                 THEN Append(mounts, [device |-> device, mountpoint |-> mountPoint])
                 ELSE mounts
    /\ UNCHANGED <<called, foreignToMount, exc, device, mountPoint, process>>

MountStart ==
    /\ called \in {"verify_mount", "mount", "shell"}
    /\ device \in Devices
    /\ mountPoint \in MountPoints
    /\ mounts \in (IF called = "shell" THEN {<<>>} ELSE SeqsUpTo(Partitions, MaxMounts))
    /\ process \in (IF called = "verify_mount" THEN {NoProcess} ELSE Processes)
    /\ returned = <<>>
    /\ exitStatus = <<>>

\* A call of another function.
MountIdle ==
    /\ device = <<>>
    /\ mountPoint = <<>>
    /\ mounts = <<>>
    /\ process = NoProcess
    /\ returned = <<>>
    /\ exitStatus = <<>>

(***************************************************************************)
(* delete_file_from_zip, create and rename (archive.py:40-55, 90-119).     *)
(* A file is a sequence of chunks: a member as zipfile wrote it, the       *)
(* central directory that ZipFile.close() writes behind the members, or a  *)
(* hole. A ZipFile opened for writing keeps its own position and the       *)
(* entries of the members it wrote.                                        *)
(***************************************************************************)
\* Line 44: temp_file.
TempFile == <<"/", "t", "m", "p", "/", "t", "e", "m", "p", ".", "z", "i", "p">>

\* A variant of TempArchiveName that names the archive itself.
TempArchiveNameIsPath(path) == path

\* Lines 90-91: _temp_archive_name.
TempArchiveName(path) ==
    path \o <<"_", "_", "_", "s", "c", "a", "n", "o", "m", "a", "t", "i", "c",
              "_", "t", "e", "m", "p">>

EditPaths ==
    {ZipName, OtherZipName, TempFile, TempArchiveName(ZipName),
     TempArchiveName(OtherZipName)}

Hole == [hole |-> TRUE]

\* The file zipfile wrote for the members ms: a chunk per member and the
\* central directory, which has of each member its place, its name and (as
\* its size and CRC) its data. A member with a bad stream holds other data
\* than its directory entry says.
Image(ms) ==
    [i \in 1..Len(ms) |->
        [filename |-> ms[i].filename,
         data |-> IF ms[i].stream = "ok" THEN ms[i].data ELSE ms[i].data \o <<0>>]]
    \o <<[dir |-> [i \in 1..Len(ms) |->
                      [pos |-> i, filename |-> ms[i].filename, data |-> ms[i].data]]]>>

\* zipfile.ZipFile(path, "r") finds a central directory at the end of the file.
IsArchive(content) ==
    content # <<>> /\ "dir" \in DOMAIN content[Len(content)]

\* ZipFile.infolist() (filelist): the entries of the central directory.
InfoList(content) == content[Len(content)].dir

\* ZipFile.read(name): getinfo finds the last entry of that name; the read
\* gives its data, as <<data>>, or fails, <<>>, where the file does not hold
\* at the entry's place what the entry says.
ReadName(content, infos, name) ==
    LET e == infos[CHOOSE i \in 1..Len(infos) :
                       /\ infos[i].filename = name
                       /\ \A j \in (i + 1)..Len(infos) : infos[j].filename # name]
    IN  IF /\ e.pos <= Len(content)
           /\ content[e.pos] = [filename |-> e.filename, data |-> e.data]
        THEN <<e.data>> ELSE <<>>

\* A write of one chunk at a position of the file, behind its end too.
WriteAt(content, pos, chunk) ==
    [i \in 1..(IF pos > Len(content) THEN pos ELSE Len(content)) |->
        IF i = pos THEN chunk ELSE IF i <= Len(content) THEN content[i] ELSE Hole]

\* The file a call writes the new archive to.
TempOf(c) ==
    IF c.fn = "delete_file_from_zip" THEN TempFile ELSE TempArchiveName(c.path)

\* The name under which a call writes the member of entry e: none, <<>>, or
\* one. Lines 49, 100-101, 112-116.
TargetName(c, e) ==
    CASE c.fn = "delete_file_from_zip" ->
             IF e.filename # c.name THEN <<e.filename>> ELSE <<>>
      [] c.fn = "create" ->
             IF e.filename \in DOMAIN c.names THEN <<c.names[e.filename]>> ELSE <<>>
      [] c.fn = "rename" ->
             IF e.filename \in DOMAIN c.names THEN <<c.names[e.filename]>>
             ELSE <<e.filename>>

\* The call p ends by the exception x.
Raise(p, x) == calls' = [calls EXCEPT ![p].pc = "raised", ![p].exc = x]

\* The opening lines of a call: delete_file_from_zip (45-46) and rename
\* (108-109) open the source, then the temporary file for writing; create
\* (96-98) the temporary file, then the source. Opening for writing makes
\* the file or empties it. A source that is no archive raises BadZipFile;
\* leaving the with block then closes the temporary archive, if open.
EditOpen(p) ==
    LET c == calls[p]
        srcPath == IF c.fn = "create" THEN c.source ELSE c.path
        srcOk == paths[srcPath] # 0 /\ IsArchive(inodes[paths[srcPath]])
        tmpPath == TempOf(c)
        tmp == IF paths[tmpPath] = 0 THEN Len(inodes) + 1 ELSE paths[tmpPath]
        emptied == IF paths[tmpPath] = 0 THEN Append(inodes, <<>>)
                   ELSE [inodes EXCEPT ![tmp] = <<>>]
    IN  /\ c.pc = "start"
        /\ IF srcOk
           THEN /\ paths' = [paths EXCEPT ![tmpPath] = tmp]
                /\ inodes' = emptied
                /\ calls' = [calls EXCEPT ![p].pc = "copy",
                                          ![p].infos = InfoList(inodes[paths[srcPath]]),
                                          ![p].src = paths[srcPath],
                                          ![p].tmp = tmp]
           ELSE IF c.fn = "create"
           THEN /\ paths' = [paths EXCEPT ![tmpPath] = tmp]
                /\ inodes' = [emptied EXCEPT ![tmp] = <<[dir |-> <<>>]>>]
                /\ Raise(p, "BadZipFile")
           ELSE /\ Raise(p, "BadZipFile")
                /\ UNCHANGED <<paths, inodes>>
        /\ UNCHANGED foreignToEdit

\* One pass of the loop over the source's entries (lines 47-50, 99-101,
\* 110-116): the read of the member by its name and the write of it to the
\* temporary archive. delete_file_from_zip reads every member, the others
\* those they write. A read that fails raises BadZipFile and the with block
\* closes the temporary archive; a write that fails raises OSError.
EditCopy(p) ==
    LET c == calls[p]
        e == c.infos[c.item]
        target == TargetName(c, e)
        buffer == ReadName(inodes[c.src], c.infos, e.filename)
        isRead == c.fn = "delete_file_from_zip" \/ target # <<>>
    IN  /\ c.pc = "copy"
        /\ c.item <= Len(c.infos)
        /\ IF isRead /\ buffer = <<>>
           THEN /\ inodes' = [inodes EXCEPT ![c.tmp] =
                                 WriteAt(@, c.pos, [dir |-> c.entries])]
                /\ Raise(p, "BadZipFile")
           ELSE IF target # <<>> /\ c.failAt = c.item
           THEN /\ Raise(p, "OSError")
                /\ UNCHANGED inodes
           ELSE IF target # <<>>
           THEN /\ inodes' = [inodes EXCEPT ![c.tmp] =
                                 WriteAt(@, c.pos, [filename |-> target[1],
                                                    data |-> buffer[1]])]
                /\ calls' = [calls EXCEPT
                                ![p].entries = Append(@, [pos |-> c.pos,
                                                          filename |-> target[1],
                                                          data |-> buffer[1]]),
                                ![p].pos = @ + 1,
                                ![p].item = @ + 1]
           ELSE /\ calls' = [calls EXCEPT ![p].item = @ + 1]
                /\ UNCHANGED inodes
        /\ UNCHANGED <<paths, foreignToEdit>>

\* The end of the loop: the temporary archive is closed (line 51, or the
\* end of the with block), which writes its central directory.
EditClose(p) ==
    LET c == calls[p]
    IN  /\ c.pc = "copy"
        /\ c.item > Len(c.infos)
        /\ inodes' = [inodes EXCEPT ![c.tmp] = WriteAt(@, c.pos, [dir |-> c.entries])]
        /\ calls' = [calls EXCEPT ![p].pc = "move"]
        /\ UNCHANGED <<paths, foreignToEdit>>

\* Lines 55, 103, 119: move(temporary file, path), a rename within one file
\* system; FileNotFoundError where nothing has the temporary file's name.
EditMove(p) ==
    LET c == calls[p]
        tmpPath == TempOf(c)
    IN  /\ c.pc = "move"
        /\ IF paths[tmpPath] = 0
           THEN /\ Raise(p, "FileNotFoundError")
                /\ UNCHANGED paths
           ELSE /\ paths' = IF tmpPath = c.path THEN paths
                            ELSE [paths EXCEPT ![c.path] = paths[tmpPath],
                                               ![tmpPath] = 0]
                /\ calls' = [calls EXCEPT ![p].pc = "done"]
        /\ UNCHANGED <<inodes, foreignToEdit>>

\* The members of the archives edited.
EditMembers ==
    [filename : {TxtName, NesName}, data : {Take(Payload, 1), LongData},
     stream : {"ok"}]
    \cup {[filename |-> TxtName, data |-> LongData, stream |-> "badcrc"]}

\* What the file at path holds before the call: an archive or other bytes.
EditFiles ==
    {Image(ms) : ms \in SeqsUpTo(EditMembers, MaxMembers)} \cup {<<Hole>>}

OtherArchive ==
    Image(<<[filename |-> TxtName, data |-> Take(Payload, 2), stream |-> "ok"],
            [filename |-> OnesName, data |-> Take(Payload, 1), stream |-> "ok"]>>)

\* The names dict of rename, the source_roms dict of create.
NameDicts ==
    {[x \in {} |-> <<>>], [x \in {TxtName} |-> OnesName],
     [x \in {TxtName, NesName} |-> IF x = TxtName THEN NesName ELSE TxtName]}

\* What the path names: the chunks of its file, or nothing.
FileAt(path) == IF paths[path] = 0 THEN <<[absent |-> TRUE]>> ELSE inodes[paths[path]]

\* A call at its first line; before is what its path names then.
NewCall(fn, path, source, name, names, failAt) ==
    [fn |-> fn, path |-> path, source |-> source, name |-> name, names |-> names,
     failAt |-> failAt, pc |-> "start", exc |-> "none", infos |-> <<>>,
     src |-> 0, tmp |-> 0, pos |-> 1, entries |-> <<>>, item |-> 1,
     before |-> FileAt(path)]

\* The calls explored: delete_file_from_zip on one archive, or on two
\* archives by two processes at the same time; rename on an archive; create
\* from one source archive, the archive to create there or not.
EditStart ==
    /\ inodes \in {<<a, OtherArchive>> : a \in EditFiles}
    /\ \/ /\ called = "delete_file_from_zip"
          /\ paths = [x \in EditPaths |->
                         IF x = ZipName THEN 1 ELSE IF x = OtherZipName THEN 2 ELSE 0]
          /\ \E n \in {TxtName, NesName} :
                \/ calls = <<NewCall(called, ZipName, <<>>, n, <<>>, 0)>>
                \/ \E m \in {TxtName, OnesName} :
                      calls = <<NewCall(called, ZipName, <<>>, n, <<>>, 0),
                                NewCall(called, OtherZipName, <<>>, m, <<>>, 0)>>
       \/ /\ called = "rename"
          /\ paths = [x \in EditPaths |-> IF x = ZipName THEN 1 ELSE 0]
          /\ \E d \in NameDicts, k \in 0..1 :
                calls = <<NewCall(called, ZipName, <<>>, <<>>, d, k)>>
       \/ /\ called = "create"
          /\ \E there \in BOOLEAN :
                paths = [x \in EditPaths |->
                            IF x = ZipName THEN 1
                            ELSE IF x = OtherZipName /\ there THEN 2 ELSE 0]
          /\ \E d \in NameDicts, k \in 0..1 :
                calls = <<NewCall(called, OtherZipName, ZipName, <<>>, d, k)>>

\* A call of another function.
EditIdle ==
    /\ paths = [x \in EditPaths |-> 0]
    /\ inodes = <<>>
    /\ calls = <<>>

(***************************************************************************)
(* initialize_ssh_connection (ssh.py).  The gateway list is one object,    *)
(* shared by the caller and the calls of the recursion.                    *)
(***************************************************************************)
PyList(l) == [list |-> l]

\* The host to reach and the gateways there are.
Host == "host"
Gateways == {"gw1", "gw2"}

\* Sequences of different gateways, up to MaxGateways of them.
GatewayLists ==
    {l \in SeqsUpTo(Gateways, MaxGateways) :
        \A i, j \in 1..Len(l) : i # j => l[i] # l[j]}

\* The list the calls on the stack pop from: the caller's list, or the
\* list made of a str (lines 22-23).
Working == IF "list" \in DOMAIN gateway THEN gateway.list ELSE own

\* The caller calls initialize_ssh_connection(Host, gateway); lines 22-23.
SshEnter ==
    /\ called = "initialize_ssh_connection"
    /\ frames = <<>>
    /\ Len(chains) < MaxSshCalls
    /\ frames' = <<[host |-> Host, pc |-> "start", next |-> "none"]>>
    /\ own' = IF "str" \in DOMAIN gateway THEN <<gateway.str>> ELSE <<>>
    /\ chains' = Append(chains, <<>>)
    /\ passed' = Append(passed, gateway)
    /\ UNCHANGED <<gateway, foreignToTools, cacheVars>>

\* Lines 31-33: the list is not empty; gateway.pop(0) takes its first
\* element off the list, and the call for that gateway begins, with the
\* same list.
SshPop ==
    LET top == frames[Len(frames)]
    IN  /\ frames # <<>>
        /\ top.pc = "start"
        /\ Working # <<>>
        /\ frames' = Append([frames EXCEPT ![Len(frames)].pc = "waiting",
                                           ![Len(frames)].next = Head(Working)],
                            [host |-> Head(Working), pc |-> "start", next |-> "none"])
        /\ IF "list" \in DOMAIN gateway
           THEN gateway' = PyList(Tail(gateway.list)) /\ UNCHANGED own
           ELSE own' = Tail(own) /\ UNCHANGED gateway
        /\ UNCHANGED <<chains, passed, foreignToTools, cacheVars>>

\* Lines 34-40: the connection to the host, through a channel of the
\* gateway's client once the call for the gateway has returned (34-35),
\* or direct where there is no gateway left (37); the call returns.
SshConnect ==
    LET top == frames[Len(frames)]
        via == IF top.pc = "waiting" THEN top.next ELSE "direct"
    IN  /\ frames # <<>>
        /\ top.pc = "waiting" \/ Working = <<>>
        /\ chains' = [chains EXCEPT ![Len(chains)] =
                          Append(@, [host |-> top.host, via |-> via])]
        /\ frames' = SubSeq(frames, 1, Len(frames) - 1)
        /\ UNCHANGED <<gateway, own, passed, foreignToTools, cacheVars>>

\* The calls explored: gateway None, a str, or a list of gateways.
SshStart ==
    /\ called = "initialize_ssh_connection"
    /\ gateway \in {PyNone} \cup {PyStr(g) : g \in Gateways}
                   \cup {PyList(l) : l \in GatewayLists}
    /\ own = <<>>
    /\ frames = <<>>
    /\ chains = <<>>
    /\ passed = <<>>

\* A call of another function.
SshIdle ==
    /\ gateway = PyNone
    /\ own = <<>>
    /\ frames = <<>>
    /\ chains = <<>>
    /\ passed = <<>>

(***************************************************************************)
(* delete_cache_directories and delete_directory (file_system.py).         *)
(***************************************************************************)
\* The paths there are: a directory, one below it, and another.
CachePaths == {<<"/", "c">>, <<"/", "c", "/", "x">>, <<"/", "t">>}

\* The path q is below the directory p.
Below(q, p) ==
    Len(q) > Len(p) + 1 /\ SubSeq(q, 1, Len(p)) = p /\ q[Len(p) + 1] = "/"

\* The file systems: what is below a path is below a directory.
Trees ==
    {t \in [CachePaths -> {"dir", "file", "none"}] :
        \A q, p \in CachePaths : (Below(q, p) /\ t[q] # "none") => t[p] = "dir"}

\* shutil.rmtree(path): the directory and all below it are gone.
RmTree(t, path) ==
    [q \in DOMAIN t |-> IF q = path \/ Below(q, path) THEN "none" ELSE t[q]]

\* Line 210 without the answer.
AllowedAlways(f, a) == TRUE

\* Line 210: force or Confirm.ask("Are you sure?"); the user is asked only
\* where force is not set.
Allowed(f, a) == f \/ a

\* Lines 204-211: the warning with the list of the directories, where force
\* is not set, then the question.
CacheAsk ==
    /\ stage = "ask"
    /\ LET warning ==
               IF force THEN <<>>
               ELSE <<[msg |-> "warning"]>>
                    \o [i \in 1..Len(directories) |->
                           [msg |-> "listed", path |-> directories[i]]]
                    \o <<[msg |-> ""], [msg |-> "Are you sure?"]>>
       IN  IF Allowed(force, answer)
           THEN /\ stage' = "delete"
                /\ shown' = warning \o <<[msg |-> "clearing cache directories"]>>
           ELSE /\ stage' = "done"
                /\ shown' = warning
    /\ UNCHANGED <<directories, force, answer, tree, before, position,
                   foreignToTools, sshVars>>

\* Lines 212-213, one pass of the loop, with delete_directory (194-199): a
\* directory is removed with all below it, anything else is logged as
\* vanished.
CacheDelete ==
    /\ stage = "delete"
    /\ position <= Len(directories)
    /\ IF tree[directories[position]] = "dir"
       THEN /\ tree' = RmTree(tree, directories[position])
            /\ UNCHANGED shown
       ELSE /\ shown' = Append(shown, [msg |-> "directory already vanished",
                                       path |-> directories[position]])
            /\ UNCHANGED tree
    /\ position' = position + 1
    /\ UNCHANGED <<directories, force, answer, before, stage,
                   foreignToTools, sshVars>>

\* The loop is over: the function returns.
CacheReturn ==
    /\ stage = "delete"
    /\ position > Len(directories)
    /\ stage' = "done"
    /\ UNCHANGED <<directories, force, answer, tree, before, position, shown,
                   foreignToTools, sshVars>>

\* The calls explored: up to MaxDirs of the paths, in any order and also
\* twice, on every file system, with force or not, the answer yes or no.
CacheStart ==
    /\ called = "delete_cache_directories"
    /\ directories \in SeqsUpTo(CachePaths, MaxDirs)
    /\ force \in BOOLEAN
    /\ answer \in BOOLEAN
    /\ tree \in Trees
    /\ before = tree
    /\ stage = "ask"
    /\ position = 1
    /\ shown = <<>>

\* A call of another function.
CacheIdle ==
    /\ directories = <<>>
    /\ force = FALSE
    /\ answer = FALSE
    /\ tree = [q \in CachePaths |-> "none"]
    /\ before = tree
    /\ stage = "idle"
    /\ position = 1
    /\ shown = <<>>

\* The scans explored: scan_directory on a directory of one file, any of
\* Files, and on the directories of up to MaxFiles of the BatchFiles;
\* scan_file on each of the DirectFiles.
ScanStart ==
    /\ \/ /\ called = "scan_directory"
          /\ dir \in {<<f>> : f \in Files}
                     \cup UNION {Listings(BatchFiles, k) : k \in 0..MaxFiles}
       \/ /\ called = "scan_file"
          /\ dir \in {<<f>> : f \in DirectFiles}
    /\ md5 \in BOOLEAN
    /\ clean \in BOOLEAN
    /\ offsets \in OffsetTables
    /\ fs = {dir[i].name : i \in 1..Len(dir)}
    /\ pc = "next_file"
    /\ index = 1
    /\ member = 0
    /\ result = <<>>
    /\ printed = <<>>
    /\ hashed = <<>>
    /\ reads = <<>>
    /\ exc = "none"

\* A call of another function: nothing to scan, the call at its first line.
ScanIdle ==
    /\ dir = <<>>
    /\ md5 = FALSE
    /\ clean = FALSE
    /\ offsets = [x \in {} |-> 0]
    /\ fs = {}
    /\ pc = "start"
    /\ index = 1
    /\ member = 0
    /\ result = <<>>
    /\ printed = <<>>
    /\ hashed = <<>>
    /\ reads = <<>>
    /\ exc = "none"

Init ==
    \/ ScanStart /\ ChecksumsIdle /\ MountIdle /\ EditIdle /\ SshIdle /\ CacheIdle
    \/ called = "get_zip_checksums" /\ ScanIdle /\ ChecksumsStart /\ MountIdle
          /\ EditIdle /\ SshIdle /\ CacheIdle
    \/ ScanIdle /\ ChecksumsIdle /\ MountStart /\ EditIdle /\ SshIdle /\ CacheIdle
    \/ ScanIdle /\ ChecksumsIdle /\ MountIdle /\ EditStart /\ SshIdle /\ CacheIdle
    \/ ScanIdle /\ ChecksumsIdle /\ MountIdle /\ EditIdle /\ SshStart /\ CacheIdle
    \/ ScanIdle /\ ChecksumsIdle /\ MountIdle /\ EditIdle /\ SshIdle /\ CacheStart

Next ==
    \/ ZipOpen
    \/ ZipOpenFails
    \/ ZipMember
    \/ ZipEnd
    \/ SevenOpen
    \/ SevenOpenFails
    \/ SevenMember
    \/ SevenEnd
    \/ PlainFile
    \/ Return
    \/ ChecksumsOpen
    \/ ChecksumsOpenFails
    \/ ChecksumsMember
    \/ ChecksumsReturn
    \/ VerifyMount
    \/ MountVerified
    \/ MountUnverified
    \/ Shell
    \/ \E p \in 1..Len(calls) : EditOpen(p)
    \/ \E p \in 1..Len(calls) : EditCopy(p)
    \/ \E p \in 1..Len(calls) : EditClose(p)
    \/ \E p \in 1..Len(calls) : EditMove(p)
    \/ SshEnter
    \/ SshPop
    \/ SshConnect
    \/ CacheAsk
    \/ CacheDelete
    \/ CacheReturn

Spec == Init /\ [][Next]_vars

(***************************************************************************)
(* The generators as wholes: what one call yields to its end.              *)
(***************************************************************************)
\* scan_7z on the file f: one dict per listed member, nothing when the file
\* does not open.
ScanSevenYields(f) ==
    IF f.format = "7z"
    THEN [i \in 1..Len(f.members) |-> SevenResult(PathOf(f), f.members[i])]
    ELSE <<>>

\* scan_file on the file f, lines 193-202: the dicts it yields, up to its
\* end or to the exception that leaves it.
ScanFileYields(f) ==
    LET extension == AfterLastDot(PathOf(f))
    IN  IF extension = <<"7", "z">>
        THEN LET ys == ScanSevenYields(f)
             IN  [i \in 1..Len(ys) |-> Merge(ys[i], [type |-> extension])]
        ELSE IF extension = <<"z", "i", "p">>
        THEN LET ys == IF f.format = "zip"
                       THEN ScanZipYields(PathOf(f), f.members, offsets, md5)
                       ELSE <<>>
             IN  [i \in 1..Len(ys) |-> Merge(ys[i], [type |-> extension])]
        ELSE <<[type |-> <<"f", "i", "l", "e">>, path |-> PathOf(f),
                crc |-> file_crc(f.content), size |-> PyInt(Len(f.content))]>>
(***************************************************************************)
(* What the properties speak of.                                           *)
(***************************************************************************)
FileIndexes == 1..Len(dir)

\* scan_directory has gone past file k.
FilePassed(k) == index > k

\* The scan of file k is over: passed, or left by an exception.
FileOver(k) == index > k \/ (pc = "raised" /\ index = k)

\* An exception left the scan of file k.
RaisedIn(k) == pc = "raised" /\ index = k

\* The dicts collected for file k, in order.
EntriesOf(k) == SelectSeq(result, LAMBDA e : e.path = PathOf(dir[k]))

HasExtension(f, e) == AfterLastDot(PathOf(f)) = e

IsZip(f) == HasExtension(f, <<"z", "i", "p">>) /\ f.format = "zip"

IsSeven(f) == HasExtension(f, <<"7", "z">>) /\ f.format = "7z"

HasArchiveExtension(f) ==
    HasExtension(f, <<"z", "i", "p">>) \/ HasExtension(f, <<"7", "z">>)

\* Every member's data reads back.
WellFormed(f) == \A i \in 1..Len(f.members) : f.members[i].stream = "ok"

\* The file has a container's extension and no reader opens it.
FailsToOpen(f) == HasArchiveExtension(f) /\ f.format = "data"

\* A bad file: one that does not open, or a zip with a member that does
\* not read back.
BadFile(f) == FailsToOpen(f) \/ (IsZip(f) /\ ~WellFormed(f))

\* The member's lookup key (line 127) is a key of the offset table.
InTable(m) == LastThree(m.filename) \in DOMAIN offsets

OffsetOf(m) == IF InTable(m) THEN offsets[LastThree(m.filename)] ELSE 0

\* A diagnostic of one of the two handlers names file k.
Diagnostics(k) ==
    SelectSeq(printed, LAMBDA p : /\ p.msg \in {"ERROR - archive", "error:"}
                                  /\ p.path = PathOf(dir[k]))

Warnings ==
    SelectSeq(printed, LAMBDA p : p.msg = "implement md5 calculation for 7zip")

\* A 32-bit value as exactly eight lowercase hexadecimal digits.
Hex4(n) ==
    <<HexDigitLower(n \div 4096), HexDigitLower((n \div 256) % 16),
      HexDigitLower((n \div 16) % 16), HexDigitLower(n % 16)>>

Hex8(c) == Hex4(c.hi) \o Hex4(c.lo)

LowerHexDigits == {HexDigitLower(d) : d \in 0..15}

HexDigitValue(ch) == CHOOSE d \in 0..15 : HexDigitLower(d) = ch

Hex4Value(s) ==
    HexDigitValue(s[1]) * 4096 + HexDigitValue(s[2]) * 256
    + HexDigitValue(s[3]) * 16 + HexDigitValue(s[4])

\* The 32-bit value a text of one to eight lowercase hexadecimal digits
\* denotes; U32(65536, 0), no 32-bit value, for any other text.
HexValue(s) ==
    IF Len(s) \in 1..8 /\ \A i \in 1..Len(s) : s[i] \in LowerHexDigits
    THEN LET p == [i \in 1..8 |-> IF i <= 8 - Len(s) THEN "0" ELSE s[i - (8 - Len(s))]]
         IN  U32(Hex4Value(SubSeq(p, 1, 4)), Hex4Value(SubSeq(p, 5, 8)))
    ELSE U32(65536, 0)

DecDigits == {DecDigit(d) : d \in 0..9}

RECURSIVE DecValue(_)
DecValue(s) ==
    IF s = <<>> THEN 0
    ELSE 10 * DecValue(SubSeq(s, 1, Len(s) - 1))
         + (CHOOSE d \in 0..9 : DecDigit(d) = s[Len(s)])

\* v is the Python str that is the decimal numeral of n >= 0.
IsDecimalStr(v, n) ==
    /\ DOMAIN v = {"str"}
    /\ v.str # <<>>
    /\ \A i \in 1..Len(v.str) : v.str[i] \in DecDigits
    /\ (Len(v.str) > 1 => v.str[1] # "0")
    /\ DecValue(v.str) = n

\* A dict without its md5 key.
WithoutMd5(e) == [x \in DOMAIN e \ {"md5"} |-> e[x]]

\* What scan_file yields for the zip container f when no digest is asked for.
PlainRun(f) ==
    LET ys == ScanZipYields(PathOf(f), f.members, offsets, FALSE)
    IN  [i \in 1..Len(ys) |-> Merge(ys[i], [type |-> <<"z", "i", "p">>])]

C2_OffsetCrc ==
    \A k \in FileIndexes :
        (IsZip(dir[k]) /\ WellFormed(dir[k]) /\ FileOver(k)) =>
            LET ms == dir[k].members
                es == EntriesOf(k)
            IN  /\ Len(es) = Len(ms)
                /\ \A i \in 1..Len(ms) :
                       InTable(ms[i]) =>
                           /\ es[i].crc =
                                Hex8(crc32(Drop(ms[i].data, OffsetOf(ms[i])), U32(0, 0)))
                           /\ es[i].size =
                                PyStr(Str(Len(ms[i].data) - OffsetOf(ms[i])))

(***************************************************************************)
(* C3.  Zero-byte files.                                                   *)
(***************************************************************************)
\* C3: once the scan of a zero-byte file is over, whatever its extension
\* and the cleanup flag, no dict was collected for it and it is gone.
C3_ZeroByteRemoved ==
    \A k \in FileIndexes :
        (Len(dir[k].content) = 0 /\ FileOver(k)) =>
            /\ EntriesOf(k) = <<>>
            /\ dir[k].name \notin fs

(***************************************************************************)
(* C4.  Corrupt containers in cleanup mode.                                *)
(***************************************************************************)
\* C4: once the scan, with the cleanup flag set, of a non-empty file with
\* extension zip or 7z that does not open as a container is over, no dict
\* was collected for it and it is gone.
C4_CorruptCleaned ==
    \A k \in FileIndexes :
        (FailsToOpen(dir[k]) /\ Len(dir[k].content) > 0 /\ clean /\ FileOver(k)) =>
            /\ EntriesOf(k) = <<>>
            /\ dir[k].name \notin fs

(***************************************************************************)
(* C5.  Corrupt containers without cleanup.                                *)
(***************************************************************************)
\* C5 as stated, for the offset table as shipped: once a non-empty corrupt
\* container (one that does not open, or a zip with a member whose data
\* does not read back) has been passed with the cleanup flag not set, no
\* dict was collected for it, a diagnostic names it and it still exists.
C5_CorruptYieldsNothing ==
    \A k \in FileIndexes :
        ( /\ BadFile(dir[k]) /\ Len(dir[k].content) > 0
          /\ ~clean /\ DOMAIN offsets = {} /\ FilePassed(k) ) =>
            /\ EntriesOf(k) = <<>>
            /\ Diagnostics(k) # <<>>
            /\ dir[k].name \in fs

\* C5 amended: for a non-empty file with extension zip or 7z that does not
\* open as a container, scanned with the cleanup flag not set, no dict is
\* ever collected, no exception leaves its scan, the file stays in place,
\* and once it is passed exactly one diagnostic names it.
C5_UnopenableKept ==
    \A k \in FileIndexes :
        (FailsToOpen(dir[k]) /\ Len(dir[k].content) > 0 /\ ~clean) =>
            /\ EntriesOf(k) = <<>>
            /\ ~RaisedIn(k)
            /\ dir[k].name \in fs
            /\ Len(Diagnostics(k)) = IF FilePassed(k) THEN 1 ELSE 0

\* A zip and a 7z that do not open, both passed without cleanup.
C5_Witness ==
    /\ ~clean
    /\ \E k \in FileIndexes :
           /\ FailsToOpen(dir[k]) /\ Len(dir[k].content) > 0 /\ FilePassed(k)
           /\ HasExtension(dir[k], <<"z", "i", "p">>)
    /\ \E k \in FileIndexes :
           /\ FailsToOpen(dir[k]) /\ Len(dir[k].content) > 0 /\ FilePassed(k)
           /\ HasExtension(dir[k], <<"7", "z">>)

(***************************************************************************)
(* C6.  No exception because of one bad file.                              *)
(***************************************************************************)
\* C6, for the offset table as shipped: no exception leaves the scan of a
\* bad file (one that does not open as the container its extension names,
\* or a zip with a member whose data does not read back), so
\* scan_directory goes on with the next file.
C6_NoExceptionFromBadFile ==
    \A k \in FileIndexes :
        (BadFile(dir[k]) /\ DOMAIN offsets = {}) => ~RaisedIn(k)

(***************************************************************************)
(* C7.  The digest is additive.                                            *)
(***************************************************************************)
\* C7 as stated: once the scan of a zip container is over, the dicts
\* collected for it are, in number and order, those of the run without
\* digest, each with one more key, md5, when the digest was asked for.
C7_SameNumberWithDigest ==
    \A k \in FileIndexes :
        (IsZip(dir[k]) /\ FileOver(k)) =>
            LET es == EntriesOf(k)
                plain == PlainRun(dir[k])
            IN  /\ Len(es) = Len(plain)
                /\ \A i \in 1..Len(es) :
                       /\ WithoutMd5(es[i]) = plain[i]
                       /\ md5 <=> "md5" \in DOMAIN es[i]

\* C7 amended: the dicts collected for a zip container are at any time a
\* prefix, in order, of those of the run without digest, each with one more
\* key, md5, when the digest was asked for, and the same path, file name,
\* crc, size, matches and type; once the scan is over they are as many as
\* in the run without digest if every member's data reads back (or no
\* digest was asked for).
C7_DigestAdditive ==
    \A k \in FileIndexes :
        IsZip(dir[k]) =>
            LET es == EntriesOf(k)
                plain == PlainRun(dir[k])
            IN  /\ Len(es) <= Len(plain)
                /\ \A i \in 1..Len(es) :
                       /\ WithoutMd5(es[i]) = plain[i]
                       /\ DOMAIN plain[i] = {"path", "file_name", "crc", "size",
                                             "matches", "type"}
                       /\ md5 <=> "md5" \in DOMAIN es[i]
                /\ (FileOver(k) /\ (WellFormed(dir[k]) \/ ~md5))
                   => Len(es) = Len(plain)

\* A well-formed zip of two members, one longer than a chunk, scanned to
\* its end with the digest, both dicts collected.
C7_Witness ==
    \E k \in FileIndexes :
        /\ IsZip(dir[k]) /\ WellFormed(dir[k]) /\ FilePassed(k) /\ md5
        /\ Len(dir[k].members) = 2
        /\ Len(dir[k].members[2].data) > ChunkSize
        /\ Len(EntriesOf(k)) = 2
        /\ "md5" \in DOMAIN EntriesOf(k)[2]

(***************************************************************************)
(* C8.  The bytes the digest is fed.                                       *)
(***************************************************************************)
\* C8: once the scan, digest asked for, of a well-formed zip is over, the
\* digest of every member was fed exactly the member's data without its
\* first N bytes, N the offset of the member (0 outside the table).
C8_DigestInput ==
    \A k \in FileIndexes :
        (IsZip(dir[k]) /\ WellFormed(dir[k]) /\ md5 /\ FileOver(k)) =>
            \A i \in 1..Len(dir[k].members) :
                \E j \in 1..Len(hashed) :
                    /\ hashed[j].file = k
                    /\ hashed[j].member = i
                    /\ hashed[j].bytes =
                         Drop(dir[k].members[i].data, OffsetOf(dir[k].members[i]))

(***************************************************************************)
(* C9.  The digest and 7z containers.                                      *)
(***************************************************************************)
\* C9 as stated: once a well-formed 7z container is passed with the digest
\* asked for, a warning was printed.
C9_WarningPrinted ==
    \A k \in FileIndexes :
        (IsSeven(dir[k]) /\ md5 /\ FilePassed(k)) => Warnings # <<>>

\* C9 amended: no exception leaves the scan of a well-formed 7z container;
\* with or without the digest asked for, the dicts collected for it are one
\* per member reached, in order, each of path, file name, eight-digit crc,
\* decimal size, empty matches and type, without md5, and all members are
\* reached once the container is passed; one warning is printed per dict
\* when the digest was asked for (none for a container without member),
\* none otherwise.
C9_SevenZipIgnoresDigest ==
    /\ \A k \in FileIndexes :
           IsSeven(dir[k]) =>
               LET ms == dir[k].members
                   es == EntriesOf(k)
               IN  /\ ~RaisedIn(k)
                   /\ Len(es) <= Len(ms)
                   /\ FilePassed(k) => Len(es) = Len(ms)
                   /\ \A i \in 1..Len(es) :
                          /\ DOMAIN es[i] = {"path", "file_name", "crc", "size",
                                             "matches", "type"}
                          /\ es[i].path = PathOf(dir[k])
                          /\ es[i].file_name = ms[i].filename
                          /\ es[i].crc = Hex8(ms[i].crc32)
                          /\ IsDecimalStr(es[i].size, ms[i].uncompressed)
                          /\ es[i].matches = <<>>
                          /\ es[i].type = <<"7", "z">>
    /\ Len(Warnings) =
           IF md5
           THEN Len(SelectSeq(result, LAMBDA e : e.type = <<"7", "z">>))
           ELSE 0

\* A 7z container of two members passed with the digest asked for.
C9_Witness ==
    \E k \in FileIndexes :
        /\ IsSeven(dir[k]) /\ md5 /\ FilePassed(k)
        /\ Len(EntriesOf(k)) = 2
        /\ Len(Warnings) = 2

IsHex8(s) == Len(s) = 8 /\ \A i \in 1..8 : s[i] \in LowerHexDigits

\* C11: the crc of every dict collected, whichever reader made it, is a text
\* of exactly eight lowercase hexadecimal digits, and its md5, where it has
\* one, is a hexdigest of hashlib (32 lowercase hexadecimal digits).
C11_ChecksumFormat ==
    \A i \in 1..Len(result) :
        /\ IsHex8(result[i].crc)
        /\ "md5" \in DOMAIN result[i] => DOMAIN result[i].md5 = {"md5_of"}

(***************************************************************************)
(* C12.  The size is a decimal string.                                     *)
(***************************************************************************)
\* The byte count a size value denotes.
SizeCount(v) == IF "str" \in DOMAIN v THEN DecValue(v.str) ELSE v.int

\* C12: the size of every dict collected is a Python str, and two dicts of
\* equal byte count have equal sizes, whichever readers made them.
C12_SizeIsDecimalStr ==
    /\ \A i \in 1..Len(result) : DOMAIN result[i].size = {"str"}
    /\ \A i, j \in 1..Len(result) :
           SizeCount(result[i].size) = SizeCount(result[j].size)
               => result[i].size = result[j].size

(***************************************************************************)
(* C13.  The fields of a record.                                           *)
(***************************************************************************)
\* C13: every dict collected, for a zip member, a 7z member or a plain
\* file, has the keys path, file_name, crc, size, type and matches, and its
\* matches is the empty list.
C13_RecordFields ==
    \A i \in 1..Len(result) :
        /\ {"path", "file_name", "crc", "size", "type", "matches"}
               \subseteq DOMAIN result[i]
        /\ result[i].matches = <<>>

(***************************************************************************)
(* C14.  scan_directory concatenates.                                      *)
(***************************************************************************)
RECURSIVE YieldsUpTo(_)
\* The dicts scan_file yields for the first k files of the listing, file
\* after file in listing order.
YieldsUpTo(k) ==
    IF k = 0 THEN <<>> ELSE YieldsUpTo(k - 1) \o ScanFileYields(dir[k])

\* s is t or the beginning of t.
IsPrefix(s, t) == Len(s) <= Len(t) /\ s = SubSeq(t, 1, Len(s))

\* C14: the list scan_directory returns is the concatenation, in listing
\* order, of what scan_file yields for each file, each file's dicts in the
\* order of their yield; on the way there the list is that concatenation
\* for the files passed (each once, one after the other), followed by the
\* first dicts of the file being scanned.
C14_Concatenation ==
    called = "scan_directory" =>
        LET done == YieldsUpTo(index - 1)
        IN  /\ index \in 1..(Len(dir) + 1)
            /\ IsPrefix(done, result)
            /\ IF index <= Len(dir)
               THEN IsPrefix(SubSeq(result, Len(done) + 1, Len(result)),
                             ScanFileYields(dir[index]))
               ELSE result = done
            /\ pc = "returned" => result = YieldsUpTo(Len(dir))

\* scan_directory has returned from a directory of two files, a zip of two
\* members and a plain file listed after it, with three dicts.
C14_Witness ==
    /\ called = "scan_directory"
    /\ pc = "returned"
    /\ Len(dir) = 2
    /\ IsZip(dir[1]) /\ Len(dir[1].members) = 2
    /\ Len(result) = 3
    /\ result[1].file_name = dir[1].members[1].filename
    /\ result[3].type = <<"f", "i", "l", "e">>

(***************************************************************************)
(* C15.  One dict per member of a well-formed container.                   *)
(***************************************************************************)
\* A container its reader opens, every member's data reading back.
WellFormedContainer(f) == IsSeven(f) \/ (IsZip(f) /\ WellFormed(f))

\* C15: no exception leaves the scan of a well-formed container; the dicts
\* collected for it are, one by one and in member order, those of its first
\* members, and once the scan is over there are as many as members.
C15_OneEntryPerMember ==
    \A k \in FileIndexes :
        WellFormedContainer(dir[k]) =>
            LET ms == dir[k].members
                es == EntriesOf(k)
            IN  /\ ~RaisedIn(k)
                /\ Len(es) <= Len(ms)
                /\ \A i \in 1..Len(es) : es[i].file_name = ms[i].filename
                /\ FilePassed(k) => Len(es) = Len(ms)

(***************************************************************************)
(* C16.  When the scanner deletes.                                         *)
(***************************************************************************)
\* C16: a file of the scan that no longer exists is zero bytes long, or is
\* a bad container scanned with the cleanup flag; a well-formed container,
\* and any non-empty file scanned without the cleanup flag, still exists
\* (the scanner opens files for reading only, so what exists is unchanged).
C16_DeletesOnlyEmptyOrCleaned ==
    \A k \in FileIndexes :
        /\ dir[k].name \notin fs =>
               \/ Len(dir[k].content) = 0
               \/ clean /\ BadFile(dir[k])
        /\ WellFormedContainer(dir[k]) => dir[k].name \in fs
        /\ (~clean /\ Len(dir[k].content) > 0) => dir[k].name \in fs

\* scan_directory has returned, with the cleanup flag, from a directory of
\* a non-empty file that is no zip, now gone, and a well-formed 7z with its
\* dict, still there.
C16_Witness ==
    /\ pc = "returned" /\ clean
    /\ \E k \in FileIndexes :
           /\ FailsToOpen(dir[k]) /\ Len(dir[k].content) > 0
           /\ dir[k].name \notin fs
    /\ \E k \in FileIndexes :
           /\ IsSeven(dir[k]) /\ Len(EntriesOf(k)) = 1
           /\ dir[k].name \in fs

(***************************************************************************)
(* C17.  Deletion and emission exclude each other.                         *)
(***************************************************************************)
\* C17: no dict was collected for a file of the scan that the scanner has
\* deleted.
C17_DeletedEmitsNothing ==
    \A k \in FileIndexes : dir[k].name \notin fs => EntriesOf(k) = <<>>

(***************************************************************************)
(* C18.  Which members get the offset correction.                          *)
(***************************************************************************)
\* The file extension of a name: the text after its last dot, none (the
\* empty text) for a name without dot.
FileExtension(name) ==
    IF \E i \in 1..Len(name) : name[i] = "." THEN AfterLastDot(name) ELSE <<>>

\* The scan of file k has done its pass for member i.
MemberDone(k, i) ==
    \/ FilePassed(k)
    \/ index = k /\ pc \in {"zip", "7z"} /\ member > i
    \/ index = k /\ pc = "raised" /\ member = i

\* The data of member i of file k was read.
WasRead(k, i) == \E j \in 1..Len(reads) : reads[j] = <<k, i>>

\* C18: in a scan without digest of a well-formed zip, the pass for a member
\* took the offset branch (it read the member's data) if and only if the
\* member's file extension is a key of the offset table; a member with any
\* other extension, or none, has its dict with the stored CRC and the
\* stored size.
C18_OffsetByExtension ==
    \A k \in FileIndexes :
        (IsZip(dir[k]) /\ WellFormed(dir[k]) /\ ~md5) =>
            \A i \in 1..Len(dir[k].members) :
                MemberDone(k, i) =>
                    LET m == dir[k].members[i]
                        es == EntriesOf(k)
                        keyed == FileExtension(m.filename) \in DOMAIN offsets
                    IN  /\ keyed <=> WasRead(k, i)
                        /\ ~keyed =>
                               /\ Len(es) >= i
                               /\ es[i].crc = Hex8(ZipInfo(m).CRC)
                               /\ es[i].size = PyStr(Str(Len(m.data)))

(***************************************************************************)
(* C19.  The reader is chosen by the extension of the path.                *)
(***************************************************************************)
\* The type the extension of the path of f stands for.
TypeByExtension(f) ==
    LET e == FileExtension(PathOf(f))
    IN  IF e = <<"7", "z">> \/ e = <<"z", "i", "p">> THEN e ELSE <<"f", "i", "l", "e">>

\* C19: the reader at work on a file is the one its path's file extension
\* (the text after the last dot) names, every dict collected for the file
\* has the type of that extension, and a file of any other extension, or
\* of none, is passed with exactly one dict, of type file.
C19_DispatchByExtension ==
    \A k \in FileIndexes :
        /\ (index = k /\ pc = "zip") => TypeByExtension(dir[k]) = <<"z", "i", "p">>
        /\ (index = k /\ pc = "7z") => TypeByExtension(dir[k]) = <<"7", "z">>
        /\ \A i \in 1..Len(EntriesOf(k)) :
               EntriesOf(k)[i].type = TypeByExtension(dir[k])
        /\ (FilePassed(k) /\ TypeByExtension(dir[k]) = <<"f", "i", "l", "e">>)
               => Len(EntriesOf(k)) = 1

CountEvents(call) == Len(SelectSeq(events, LAMBDA e : e.call = call))

\* C21: in a call of get_zip_checksums with a Progress, the total is set at
\* most once, to the number of members, before any member is described or
\* read; every read of a member comes right after the description naming
\* that member; every advance comes right after a read and adds 1, so that
\* the completed count is the number of members done, never above the
\* total, and equal to the total when the function returns.
C21_ProgressReports ==
    (called = "get_zip_checksums" /\ attached) =>
        /\ \A i \in 1..Len(events) :
               /\ events[i].call = "start_task" => i = 1
               /\ events[i].call = "update_total" =>
                      i = 2 /\ events[i].total = Len(archive.members)
               /\ events[i].call = "update_description" =>
                      i > 2 /\ events[2].call = "update_total"
               /\ events[i].call = "read" =>
                      /\ i > 1
                      /\ events[i - 1].call = "update_description"
                      /\ events[i - 1].member = events[i].member
               /\ events[i].call = "update_advance" =>
                      i > 1 /\ events[i - 1].call = "read"
        /\ pc \in {"members", "returned"} =>
               /\ task.total = <<Len(archive.members)>>
               /\ task.completed = index - 1
               /\ task.completed <= task.total[1]
        /\ task.completed = CountEvents("update_advance")
        /\ CountEvents("read") \in {task.completed, task.completed + 1}
        /\ pc = "returned" => task.completed = task.total[1]

\* get_zip_checksums has returned from an archive of two members of
\* different names, the Progress at 2 of 2.
C21_Witness ==
    /\ called = "get_zip_checksums" /\ attached /\ pc = "returned"
    /\ Len(archive.members) = 2
    /\ archive.members[1].filename # archive.members[2].filename
    /\ task.completed = 2 /\ task.total = <<2>>
    /\ Len(events) = 8

(***************************************************************************)
(* C22.  The Progress is advisory.                                         *)
(***************************************************************************)
\* C22: a call of get_zip_checksums that is over has ended the same way,
\* and on return with the same dict, whether it was given a Progress or
\* None: the way the function ends with a Progress.
C22_SinkIsAdvisory ==
    (called = "get_zip_checksums" /\ pc \in {"returned", "raised"}) =>
        /\ exc = GetZipChecksums(archive).exc
        /\ pc = "returned" => checksums = GetZipChecksums(archive).checksums

(***************************************************************************)
(* C24.  The size is never negative.                                       *)
(***************************************************************************)
\* v is a Python str of decimal digits only: the numeral of a count >= 0.
IsCountStr(v) ==
    /\ DOMAIN v = {"str"}
    /\ v.str # <<>>
    /\ \A i \in 1..Len(v.str) : v.str[i] \in DecDigits

\* C24: every size scan_zip emits is the decimal str of a count >= 0, and
\* a member of a well-formed zip whose stored size is smaller than its
\* offset-table value has, once its pass is done, its dict with such a size.
C24_SizeNonNegative ==
    \A k \in FileIndexes :
        IsZip(dir[k]) =>
            LET ms == dir[k].members
                es == EntriesOf(k)
            IN  /\ \A i \in 1..Len(es) : IsCountStr(es[i].size)
                /\ WellFormed(dir[k]) =>
                       \A i \in 1..Len(ms) :
                           (MemberDone(k, i) /\ Len(ms[i].data) < OffsetOf(ms[i])) =>
                               Len(es) >= i /\ IsCountStr(es[i].size)

(***************************************************************************)
(* C23.  verify_mount.                                                     *)
(***************************************************************************)
\* The devices mounted on the mount point, in the order of the table.
DevicesOn(mp) ==
    LET ps == GetDeviceMountPoints(mp, mounts)
    IN  [i \in 1..Len(ps) |-> ps[i].device]

\* C23: a call of verify_mount that is over has returned False if nothing
\* is mounted on the mount point, has returned True if the expected device,
\* and it alone, is mounted there, and has left by SystemExit if another
\* device, or more than one, is mounted there.
C23_VerifyMount ==
    (called = "verify_mount" /\ pc # "start") =>
        LET on == DevicesOn(mountPoint)
        IN  /\ on = <<>> => returned = <<PyBool(FALSE)>>
            /\ on = <<device>> => returned = <<PyBool(TRUE)>>
            /\ (on # <<>> /\ on # <<device>>) =>
                   pc = "exited" /\ returned = <<>>

(***************************************************************************)
(* C28.  shell.                                                            *)
(***************************************************************************)
\* C28: a call of shell that is over has returned the standard output of
\* the command (stripped, where it is not empty) if the command exited with
\* 0, and has left by SystemExit(1), returning nothing, if the command
\* exited with another code.
C28_ShellExitsOnFailure ==
    (called = "shell" /\ pc # "start") =>
        IF process.code = 0
        THEN /\ pc = "returned"
             /\ returned = <<PyBytes(Strip(process.stdout))>>
        ELSE /\ pc = "exited"
             /\ exitStatus = <<1>>
             /\ returned = <<>>

(***************************************************************************)
(* C25.  delete_file_from_zip.                                             *)
(***************************************************************************)
\* The members a reader finds in an archive, in the order of its directory,
\* each with its name and its data, or damaged where the file does not
\* hold at the entry's place what the entry says.
Holds(content) ==
    LET infos == InfoList(content)
    IN  [i \in 1..Len(infos) |->
            IF /\ infos[i].pos <= Len(content)
               /\ content[infos[i].pos] = [filename |-> infos[i].filename,
                                            data |-> infos[i].data]
            THEN [filename |-> infos[i].filename, data |-> infos[i].data]
            ELSE [filename |-> infos[i].filename, damaged |-> TRUE]]

\* The members of the archive of call c before the call, without those of
\* the name to delete.
Remaining(c) == SelectSeq(Holds(c.before), LAMBDA m : m.filename # c.name)

\* C25: once a call of delete_file_from_zip, alone at work, is done, the
\* file at its path is an archive that holds the members of other names
\* than the one given, in their order and with their data.
C25_DeleteKeepsTheOthers ==
    (called = "delete_file_from_zip" /\ Len(calls) = 1 /\ calls[1].pc = "done") =>
        /\ IsArchive(FileAt(calls[1].path))
        /\ Holds(FileAt(calls[1].path)) = Remaining(calls[1])

(***************************************************************************)
(* C26.  Two calls of delete_file_from_zip at the same time.               *)
(***************************************************************************)
\* The names of the entries are pairwise different.
DistinctNames(infos) ==
    \A i, j \in 1..Len(infos) : i # j => infos[i].filename # infos[j].filename

\* The archive of call c is intact before the call, its names different.
Sound(c) ==
    /\ IsArchive(c.before)
    /\ DistinctNames(InfoList(c.before))
    /\ \A i \in 1..Len(Holds(c.before)) : "data" \in DOMAIN Holds(c.before)[i]

\* C26: once two calls of delete_file_from_zip on two intact archives,
\* at work at the same time, are both over, each is done and the file at
\* its path holds its own archive's remaining members.
C26_NoInterference ==
    ( /\ called = "delete_file_from_zip" /\ Len(calls) = 2
      /\ \A p \in 1..2 : Sound(calls[p]) /\ calls[p].pc \in {"done", "raised"} )
    => \A p \in 1..2 :
           /\ calls[p].pc = "done"
           /\ IsArchive(FileAt(calls[p].path))
           /\ Holds(FileAt(calls[p].path)) = Remaining(calls[p])

(***************************************************************************)
(* C27.  create and rename replace the archive by one move at the end.     *)
(***************************************************************************)
\* The names call c writes, in the order of its source's entries.
Written(c) ==
    LET kept == SelectSeq(c.infos, LAMBDA e : TargetName(c, e) # <<>>)
    IN  [k \in 1..Len(kept) |-> TargetName(c, kept[k])[1]]

\* The content is a complete archive of call c: a directory, each member
\* where its entry says, and the names written, all of them and in order.
CompleteArchive(c, content) ==
    /\ IsArchive(content)
    /\ \A i \in 1..Len(Holds(content)) : "data" \in DOMAIN Holds(content)[i]
    /\ [i \in 1..Len(Holds(content)) |-> Holds(content)[i].filename] = Written(c)

\* C27: during and after a call of create or rename, the file at path is
\* as it was before the call (absent, or with its old content) until the
\* call is done, also where a read or a write of a member has failed, and
\* from then on it is the complete new archive; it never holds a partly
\* written one.
C27_ReplacedOnlyWhenComplete ==
    called \in {"create", "rename"} =>
        \A p \in 1..Len(calls) :
            IF calls[p].pc = "done"
            THEN CompleteArchive(calls[p], FileAt(calls[p].path))
            ELSE FileAt(calls[p].path) = calls[p].before

\* A call of create or rename has failed at its second member, the first
\* written to the temporary file, and the file at path is as before.
C27_Witness ==
    /\ called \in {"create", "rename"}
    /\ \E p \in 1..Len(calls) :
          /\ calls[p].pc = "raised"
          /\ calls[p].exc \in {"BadZipFile", "OSError"}
          /\ calls[p].entries # <<>>
          /\ inodes[calls[p].tmp] # <<>>
          /\ FileAt(calls[p].path) = calls[p].before

(***************************************************************************)
(* C29.  initialize_ssh_connection and the caller's gateway list.          *)
(***************************************************************************)
\* The number of gateways of a gateway object.
GatewayCount(g) ==
    IF "list" \in DOMAIN g THEN Len(g.list) ELSE IF "str" \in DOMAIN g THEN 1 ELSE 0

\* C29: whenever a call of initialize_ssh_connection has returned to the
\* caller, it has opened one connection per gateway passed and one for the
\* host, the caller's gateway object is as it was passed to the first
\* call, and a second call with it has opened the same chain of
\* connections as the first.
C29_GatewayListUnchanged ==
    (called = "initialize_ssh_connection" /\ frames = <<>> /\ chains # <<>>) =>
        /\ \A k \in 1..Len(chains) : Len(chains[k]) = GatewayCount(passed[k]) + 1
        /\ gateway = passed[1]
        /\ Len(chains) = 2 => chains[2] = chains[1]

(***************************************************************************)
(* C30.  delete_cache_directories.                                         *)
(***************************************************************************)
\* C30: a call of delete_cache_directories changes nothing in the file
\* system before force or the user's yes allows it, so that without both
\* every path is at the end what it was; when it is allowed, the call
\* ends, and then no listed path is a directory any more, what was
\* listed and no directory is logged as vanished, and a path that is
\* neither a listed directory nor below one is what it was.
C30_DeletesOnlyWhenAllowed ==
    called = "delete_cache_directories" =>
        /\ (~(force \/ answer) \/ stage = "ask") => tree = before
        /\ (stage = "done" /\ (force \/ answer)) =>
              /\ position = Len(directories) + 1
              /\ \A i \in 1..Len(directories) :
                    /\ tree[directories[i]] # "dir"
                    /\ before[directories[i]] # "dir" =>
                          \E j \in 1..Len(shown) :
                              shown[j] = [msg |-> "directory already vanished",
                                          path |-> directories[i]]
              /\ \A q \in CachePaths :
                    (\A i \in 1..Len(directories) :
                        before[directories[i]] = "dir" =>
                            (q # directories[i] /\ ~Below(q, directories[i])))
                    => tree[q] = before[q]

\* The user has said no to the question, force not set, and the call is
\* over with a listed directory still there.
C30_Witness ==
    /\ called = "delete_cache_directories"
    /\ stage = "done"
    /\ ~force /\ ~answer
    /\ \E i \in 1..Len(directories) : tree[directories[i]] = "dir"
    /\ \E j \in 1..Len(shown) : shown[j] = [msg |-> "Are you sure?"]
=============================================================================
